---------------------------- MODULE Spec2Model ----------------------------
(***************************************************************************)
(* A model of getprocaddress.c: the walk from the thread's GS base to the  *)
(* base address of kernel32 (get_kernel32_modulehandle), the computation   *)
(* of a module's export directory address (get_image_exportdirectory), the *)
(* byte comparator (gpa_strcmp) and the export-table scan for the literal  *)
(* "GetProcAddress" (get_getprocaddress).                                  *)
(*                                                                         *)
(* Process memory is byte addressed.  A machine word is the sequence of    *)
(* its bytes, least significant first, exactly as x86-64 keeps it in       *)
(* memory: a 64-bit pointer is 8 bytes, a u32 is 4, a u16 is 2.  All       *)
(* arithmetic is done on these sequences with carry, so the translation    *)
(* "base + relative offset" keeps its true 64-bit width and a u32 field    *)
(* keeps its true 32-bit width.                                            *)
(***************************************************************************)
EXTENDS Integers, Sequences, FiniteSets, TLC

VARIABLES
    mem,                    \* explicitly populated bytes: address -> 0..255
    zone,                   \* <<lo, hi>>: a mapped, zero-filled range [lo, hi)
    gs,                     \* the thread's GS segment base (the TEB)
    image,                  \* description the module image was laid out from
    mods,                   \* DllBase of each loader record, in list order
    args,                   \* the two strings handed to gpa_strcmp
    pc,                     \* "idle", "loop" or "fault"
    last,                   \* the operation that returned last
    ret,                    \* its return value (8 bytes)
    cmp,                    \* the int gpa_strcmp returned
    modulehandle,           \* get_getprocaddress: its parameter
    exportdirectory,        \* get_getprocaddress: local, line 130
    num_names,              \* local, line 131 (u32)
    addressofnames,         \* local, line 132
    addressoffunctions,     \* local, line 133
    addressofnameordinals,  \* local, line 134
    i,                      \* the loop counter of line 135, as the index register holds it
    ovf,                    \* the signed counter was incremented past INT_MAX
    scanned,                \* position ranges whose name entry was read, in order
    ordReads,               \* position ranges whose ordinal entry was read
    funcReads               \* <<from, to, index>>: function-table index read there

env  == <<mem, zone, gs, image, mods, args>>
regs == <<modulehandle, exportdirectory, num_names, addressofnames,
          addressoffunctions, addressofnameordinals, i>>
logs == <<ovf, scanned, ordReads, funcReads>>
vars == <<env, pc, last, ret, cmp, regs, logs>>

---------------------------------------------------------------------------
(* Bounds of the model.                                                    *)
MaxNames   == 3     \* entries of a laid-out name table
MaxRecords == 4     \* records of a laid-out loader list
MaxStrLen  == 3     \* length of a string handed to gpa_strcmp directly

---------------------------------------------------------------------------
(* Fixed offsets of the two __asm__ blocks.                                *)
GsPebOffset          == 96    \* %gs:0x60
PebLdrOffset         == 24    \* 0x18(%rax)
LdrListOffset        == 32    \* 0x20(%rax)
EntryDllBaseOffset   == 32    \* 0x20(%rax)
ElfanewOffset        == 60    \* 0x3c(%rcx)
OptionalHeaderOffset == 24    \* leaq 0x18(%rax)
DataDirectoryOffset  == 112   \* leaq 0x70(%rax)
ExportEntryOffset    == 0     \* leaq 0x00(%rax)
VirtualAddressOffset == 0     \* movl 0x00(%rax)

---------------------------------------------------------------------------
(* Words as little-endian byte sequences.                                  *)

RECURSIVE ToLE(_, _)
\* the w-byte word holding the natural number n
ToLE(n, w) == IF w = 0 THEN <<>> ELSE <<n % 256>> \o ToLE(n \div 256, w - 1)

RECURSIVE Zeros(_)
Zeros(w) == IF w = 0 THEN <<>> ELSE <<0>> \o Zeros(w - 1)

RECURSIVE Ones(_)
Ones(w) == IF w = 0 THEN <<>> ELSE <<255>> \o Ones(w - 1)

\* the carry into byte k of a + b, and byte k of the sum
RECURSIVE Carry(_, _, _)
Carry(a, b, k) ==
    IF k = 1 THEN 0 ELSE (a[k - 1] + b[k - 1] + Carry(a, b, k - 1)) \div 256

\* a + b modulo 2^(8 * Len(a)); a and b are both 4 or both 8 bytes wide
Add(a, b) ==
    IF a[1] + b[1] < 256 /\ \A k \in 2..Len(b) : b[k] = 0
    THEN [a EXCEPT ![1] = a[1] + b[1]]
    ELSE LET S(k) == (a[k] + b[k] + Carry(a, b, k)) % 256
         IN  IF Len(a) = 8
             THEN <<S(1), S(2), S(3), S(4), S(5), S(6), S(7), S(8)>>
             ELSE <<S(1), S(2), S(3), S(4)>>

\* a - 1 modulo 2^(8 * Len(a))
Dec(a) == Add(a, Ones(Len(a)))

\* movl into a 64-bit register, u32 -> pointer-width conversion: zero extension
ZeroExtend(v) == v \o Zeros(8 - Len(v))

\* pointer plus a small byte offset
Off(a, n) ==
    IF a[1] + n < 256 THEN [a EXCEPT ![1] = a[1] + n] ELSE Add(a, ToLE(n, 8))

RECURSIVE LtFrom(_, _, _)
LtFrom(a, b, k) ==
    IF k = 0 THEN FALSE
    ELSE IF a[k] # b[k] THEN a[k] < b[k]
    ELSE LtFrom(a, b, k - 1)

\* unsigned a < b, same width
Lt(a, b) == LtFrom(a, b, Len(a))

\* the low 32 bits of a register
Low32(v) == SubSeq(v, 1, 4)

\* a char as the int it promotes to (char is signed on this target)
SChar(b) == IF b >= 128 THEN b - 256 ELSE b

\* INT_MAX and the two values a build leaves in the index register when the
\* int counter is incremented past it: wrapped to INT_MIN and sign-extended,
\* or carried on in a 64-bit induction variable
IntMax64  == <<255, 255, 255, 127, 0, 0, 0, 0>>
IntMin64  == <<0, 0, 0, 128, 255, 255, 255, 255>>
IntNext64 == <<0, 0, 0, 128, 0, 0, 0, 0>>

Null == Zeros(8)

---------------------------------------------------------------------------
(* Memory.                                                                 *)

InZone(a) == ~Lt(a, zone[1]) /\ Lt(a, zone[2])

Mapped(a) == a \in DOMAIN mem \/ InZone(a)

ByteAt(a) == IF a \in DOMAIN mem THEN mem[a] ELSE 0

\* every byte of the w-byte object at a can be read
Readable(a, w) == \A k \in 0..(w - 1) : Mapped(Off(a, k))

\* the w-byte load at a, w = 2, 4 or 8
Load(a, w) ==
    LET b(k) == ByteAt(Off(a, k))
    IN  CASE w = 2 -> <<b(0), b(1)>>
          [] w = 4 -> <<b(0), b(1), b(2), b(3)>>
          [] w = 8 -> <<b(0), b(1), b(2), b(3), b(4), b(5), b(6), b(7)>>

EmptyMem == [a \in {} |-> 0]

RECURSIVE Place(_, _)
\* the bytes bs stored from address a on
Place(a, bs) ==
    IF bs = <<>> THEN EmptyMem
    ELSE (a :> Head(bs)) @@ Place(Off(a, 1), Tail(bs))

RECURSIVE Flatten(_)
Flatten(ss) == IF ss = <<>> THEN <<>> ELSE Head(ss) \o Flatten(Tail(ss))

RECURSIVE Merge(_)
Merge(ms) == IF ms = <<>> THEN EmptyMem ELSE Head(ms) @@ Merge(Tail(ms))

---------------------------------------------------------------------------
(* The environment: what the loader leaves in memory.  These definitions   *)
(* lay memory out from a description; the program never sees the           *)
(* description, only the bytes.                                            *)

\* "GetProcAddress", the literal of line 140, without its terminator
Target == <<71, 101, 116, 80, 114, 111, 99, 65, 100, 100, 114, 101, 115, 115>>

\* where the program's read-only data keeps that literal
LiteralAddr == ToLE(24576, 8)

ProgramMem == Place(LiteralAddr, Target \o <<0>>)

\* gpa_IMAGE_EXPORT_DIRECTORY, #pragma pack(1): field names and widths in order
ExportDirectoryFields ==
    << <<"Characteristics", 4>>, <<"TimeDateStamp", 4>>, <<"MajorVersion", 2>>,
       <<"MinorVersion", 2>>, <<"Name", 4>>, <<"Base", 4>>,
       <<"NumberOfFunctions", 4>>, <<"NumberOfNames", 4>>,
       <<"AddressOfFunctions", 4>>, <<"AddressOfNames", 4>>,
       <<"AddressOfNameOrdinals", 4>> >>

\* relative addresses of the four tables of an image laid out from img
FunctionsRva(img) == Add(img.rva, ToLE(40, 4))
StringsRva(img)   == Add(FunctionsRva(img), ToLE(4 * Len(img.funcs), 4))
NamesRva(img)     == Add(StringsRva(img), ToLE(16 * Len(img.names), 4))
OrdinalsRva(img)  == Add(NamesRva(img), ToLE(4 * Len(img.names), 4))
StringRva(img, p) == Add(StringsRva(img), ToLE(16 * (p - 1), 4))

\* the absolute address of relative address r in the image
At(img, r) == Add(img.base, ZeroExtend(r))

\* first address past the image's tables
ImageTop(img) == Off(At(img, OrdinalsRva(img)), 2 * Len(img.names))

DirectoryBytes(img) ==
    Flatten(<< Zeros(4), <<120, 86, 52, 18>>, Zeros(2), Zeros(2), Zeros(4),
               img.ordbase, ToLE(Len(img.funcs), 4), img.count,
               FunctionsRva(img), NamesRva(img), OrdinalsRva(img) >>)

ImageMem(img) ==
    Merge(<< Place(img.base, <<77, 90, 144, 0>>),
             Place(Off(img.base, 60), img.e_lfanew),
             Place(Off(At(img, img.e_lfanew), 136), img.rva),
             Place(At(img, img.rva), DirectoryBytes(img)),
             Place(At(img, FunctionsRva(img)), Flatten(img.funcs)),
             Merge([p \in 1..Len(img.names) |->
                      Place(At(img, StringRva(img, p)), img.names[p] \o <<0>>)]),
             Place(At(img, NamesRva(img)),
                   Flatten([p \in 1..Len(img.names) |-> StringRva(img, p)])),
             Place(At(img, OrdinalsRva(img)), Flatten(img.ords)) >>)

\* TEB, PEB, PEB_LDR_DATA and the LDR_DATA_TABLE_ENTRY records
PebAddr == ToLE(32768, 8)
LdrAddr == ToLE(36864, 8)
EntryAddr(j) == ToLE(40960 + 256 * j, 8)

\* the link of record j in the list whose LIST_ENTRY sits at offset o of a
\* record and at offset h of PEB_LDR_DATA; past the end it is the list head,
\* or null in a list that was left unlinked
Link(ms, circular, j, o, h) ==
    IF j >= 1 /\ j <= Len(ms) THEN Off(EntryAddr(j), o)
    ELSE IF circular THEN Off(LdrAddr, h) ELSE Null

EntryMem(ms, circular, j) ==
    Merge(<< Place(EntryAddr(j), Link(ms, circular, j + 1, 0, 16)),
             Place(Off(EntryAddr(j), 16), Link(ms, circular, j + 1, 16, 32)),
             Place(Off(EntryAddr(j), 24),
                   IF j = 1 THEN Off(LdrAddr, 32) ELSE Off(EntryAddr(j - 1), 16)),
             Place(Off(EntryAddr(j), 32), Link(ms, circular, j + 1, 32, 48)),
             Place(Off(EntryAddr(j), 48), ms[j]),
             Place(Off(EntryAddr(j), 56), Off(ms[j], 4096)) >>)

LoaderMem(gsb, ms, circular) ==
    Merge(<< Place(Off(gsb, 48), gsb),
             Place(Off(gsb, 96), PebAddr),
             Place(Off(PebAddr, 16), ms[1]),
             Place(Off(PebAddr, 24), LdrAddr),
             Place(Off(LdrAddr, 16), Link(ms, circular, 1, 0, 16)),
             Place(Off(LdrAddr, 32), Link(ms, circular, 1, 16, 32)),
             Place(Off(LdrAddr, 40), Off(EntryAddr(Len(ms)), 16)),
             Place(Off(LdrAddr, 48), Link(ms, circular, 2, 32, 48)),
             Place(Off(LdrAddr, 64), Null),
             Merge([j \in 1..Len(ms) |-> EntryMem(ms, circular, j)]) >>)

---------------------------------------------------------------------------
(* The program.                                                            *)

\* get_kernel32_modulehandle, lines 78-83: the address each movq loads from,
\* n = 1..6, and the value it leaves in rax
RECURSIVE WalkAddr(_)
WalkRax(n) == Load(WalkAddr(n), 8)

\* a walk that follows one "next" link instead of two
WalkAddr_OneLink(n) ==
    CASE n = 1 -> Off(gs, GsPebOffset)
      [] n = 2 -> Off(WalkRax(1), PebLdrOffset)
      [] n = 3 -> Off(WalkRax(2), LdrListOffset)
      [] n = 4 -> WalkRax(3)
      [] n = 5 -> WalkRax(3)
      [] n = 6 -> Off(WalkRax(5), EntryDllBaseOffset)

WalkAddr(n) ==
    CASE n = 1 -> Off(gs, GsPebOffset)
      [] n = 2 -> Off(WalkRax(1), PebLdrOffset)
      [] n = 3 -> Off(WalkRax(2), LdrListOffset)
      [] n = 4 -> WalkRax(3)
      [] n = 5 -> WalkRax(4)
      [] n = 6 -> Off(WalkRax(5), EntryDllBaseOffset)

WalkReadable == \A n \in 1..6 : Readable(WalkAddr(n), 8)

\* get_image_exportdirectory, lines 95-102
\* e_lfanew sign-extended (movslq) instead of zero-extended (movl)
NtHeaders_SignExtended(mh) ==
    LET e == Load(Off(mh, ElfanewOffset), 4)
    IN  Add(e \o (IF e[4] >= 128 THEN Ones(4) ELSE Zeros(4)), mh)

NtHeaders(mh) == Add(ZeroExtend(Load(Off(mh, ElfanewOffset), 4)), mh)

ExportEntry(mh) ==
    Off(Off(Off(NtHeaders(mh), OptionalHeaderOffset), DataDirectoryOffset),
        ExportEntryOffset)

ExportDirectoryReadable(mh) ==
    /\ Readable(Off(mh, ElfanewOffset), 4)
    /\ Readable(Off(ExportEntry(mh), VirtualAddressOffset), 4)

get_image_exportdirectory(mh) ==
    Add(mh, ZeroExtend(Load(Off(ExportEntry(mh), VirtualAddressOffset), 4)))

\* a field of the packed struct of lines 56-68: its offset, width and value
RECURSIVE FieldOffsetFrom(_, _)
FieldOffsetFrom(f, k) ==
    IF ExportDirectoryFields[k][1] = f THEN 0
    ELSE ExportDirectoryFields[k][2] + FieldOffsetFrom(f, k + 1)

FieldOffset(f) == FieldOffsetFrom(f, 1)

FieldReadable(ed, f) == Readable(Off(ed, FieldOffset(f)), 4)

Field(ed, f) == Load(Off(ed, FieldOffset(f)), 4)

\* gpa_strcmp, lines 112-118: whether every byte it touches can be read, and
\* the int it returns
RECURSIVE StrReadable(_, _)
StrReadable(a, b) ==
    /\ Mapped(a)
    /\ Mapped(b)
    /\ (ByteAt(a) # 0 /\ ByteAt(b) # 0 /\ ByteAt(a) = ByteAt(b))
          => StrReadable(Off(a, 1), Off(b, 1))

\* a comparator that stops at the end of the shorter string
RECURSIVE gpa_strcmp_Prefix(_, _)
gpa_strcmp_Prefix(a, b) ==
    IF ByteAt(a) = 0 \/ ByteAt(b) = 0 THEN 0
    ELSE IF ByteAt(a) = ByteAt(b) THEN gpa_strcmp_Prefix(Off(a, 1), Off(b, 1))
    ELSE SChar(ByteAt(a)) - SChar(ByteAt(b))

RECURSIVE gpa_strcmp(_, _)
gpa_strcmp(a, b) ==
    IF ByteAt(a) # 0 /\ ByteAt(b) # 0 /\ ByteAt(a) = ByteAt(b)
    THEN gpa_strcmp(Off(a, 1), Off(b, 1))
    ELSE SChar(ByteAt(a)) - SChar(ByteAt(b))

\* one iteration of the loop of lines 135-143 at index register value x
\* (sign extended, as the compiler indexes with an int)
Times2(x) == Add(x, x)
Times4(x) == Times2(Times2(x))

NameEntry(x)    == Add(addressofnames, Times4(x))
OrdinalEntry(x) == Add(addressofnameordinals, Times2(x))
nameoffset(x)   == Load(NameEntry(x), 4)
ordinal(x)      == Load(OrdinalEntry(x), 2) \o <<0, 0>>
\* the function table indexed by the position, not by the ordinal
FunctionEntry_ByPosition(x) == Add(addressoffunctions, Times4(x))

FunctionEntry(x) == Add(addressoffunctions, Times4(ZeroExtend(ordinal(x))))
function(x)     == Load(FunctionEntry(x), 4)
name(x)         == Add(ZeroExtend(nameoffset(x)), modulehandle)

\* the function offset returned without the module base
ResolvedAddress_Untranslated(x) == ZeroExtend(function(x))

\* the function offset of the entry after the matching one
ResolvedAddress_NextEntry(x) ==
    Add(ZeroExtend(function(Off(x, 1))), modulehandle)

\* line 141: function + modulehandle
ResolvedAddress(x) == Add(ZeroExtend(function(x)), modulehandle)

\* the loop test i < num_names: the int is converted to unsigned
LoopTest == Lt(Low32(i), num_names)

\* a match that ignores the case of letters
Fold(c) == IF c >= 97 /\ c <= 122 THEN c - 32 ELSE c
RECURSIVE SameFolded(_, _)
SameFolded(a, b) ==
    /\ Fold(ByteAt(a)) = Fold(ByteAt(b))
    /\ (ByteAt(a) # 0 => SameFolded(Off(a, 1), Off(b, 1)))
Matches_IgnoreCase(x) == SameFolded(name(x), LiteralAddr)

Matches(x) == gpa_strcmp(name(x), LiteralAddr) = 0

\* the iteration completes all four reads
IterationReadable(x) ==
    /\ Readable(NameEntry(x), 4)
    /\ Readable(OrdinalEntry(x), 2)
    /\ Readable(FunctionEntry(x), 4)
    /\ StrReadable(name(x), LiteralAddr)

\* the position range x..y lies in zero-filled memory: every name entry and
\* every ordinal entry of it reads as zero, so each iteration of the range
\* does what the iteration at x does
Quiet(x, y) ==
    /\ ~Lt(y, x)
    /\ Low32(x) \o Zeros(4) = x
    /\ Low32(y) \o Zeros(4) = y
    /\ \A a \in {NameEntry(x), OrdinalEntry(x)} : InZone(a)
    /\ \A a \in {Off(NameEntry(y), 3), Off(OrdinalEntry(y), 1)} : InZone(a)
    /\ ~Lt(NameEntry(y), NameEntry(x))
    /\ ~Lt(OrdinalEntry(y), OrdinalEntry(x))
    /\ \A a \in DOMAIN mem : ~InZone(a)

\* the last position the loop visits: num_names - 1
LastPosition == ZeroExtend(Dec(num_names))

\* from i on, the iterations up to the last one all read zero entries and
\* none of them matches
QuietRun ==
    /\ LoopTest
    /\ Quiet(i, LastPosition)
    /\ IterationReadable(i)
    /\ ~Matches(i)

---------------------------------------------------------------------------
(* Operations.  A caller is at "idle" between calls; a call that reads an  *)
(* unmapped address ends the process ("fault").  The locals and the read   *)
(* logs of the previous call are gone when the next call starts.           *)

\* no frame of get_getprocaddress: its locals hold nothing
NoFrame ==
    /\ exportdirectory' = Null
    /\ num_names' = Zeros(4)
    /\ addressofnames' = Null
    /\ addressoffunctions' = Null
    /\ addressofnameordinals' = Null
    /\ i' = Null

NoLogs ==
    /\ ovf' = FALSE
    /\ scanned' = <<>>
    /\ ordReads' = {}
    /\ funcReads' = {}

\* module handles a caller passes: the image's base, or what the locator returned
Handles ==
    {image.base} \cup (IF last = "get_kernel32_modulehandle" THEN {ret} ELSE {})

\* lines 75-89
get_kernel32_modulehandle ==
    /\ pc = "idle"
    /\ last' = "get_kernel32_modulehandle"
    /\ \/ WalkReadable /\ pc' = "idle" /\ ret' = WalkRax(6)
       \/ ~WalkReadable /\ pc' = "fault" /\ ret' = Null
    /\ modulehandle' = Null
    /\ NoFrame
    /\ NoLogs
    /\ UNCHANGED <<env, cmp>>

\* lines 92-108, called on its own
call_get_image_exportdirectory ==
    /\ pc = "idle"
    /\ last' = "get_image_exportdirectory"
    /\ \E mh \in Handles :
          /\ modulehandle' = mh
          /\ \/ ExportDirectoryReadable(mh) /\ pc' = "idle"
                /\ ret' = get_image_exportdirectory(mh)
             \/ ~ExportDirectoryReadable(mh) /\ pc' = "fault" /\ ret' = Null
    /\ NoFrame
    /\ NoLogs
    /\ UNCHANGED <<env, cmp>>

\* the four fields lines 131-134 read
ReadFields == {"NumberOfNames", "AddressOfNames", "AddressOfFunctions",
               "AddressOfNameOrdinals"}

\* lines 129-135: the call, the locals, int i = 0
get_getprocaddress_enter ==
    /\ pc = "idle"
    /\ last' = "get_getprocaddress"
    /\ ret' = Null
    /\ NoLogs
    /\ \E mh \in Handles :
          LET ed == get_image_exportdirectory(mh)
              ok == /\ ExportDirectoryReadable(mh)
                    /\ \A f \in ReadFields : FieldReadable(ed, f)
          IN  /\ modulehandle' = mh
              /\ \/ /\ ok
                    /\ pc' = "loop"
                    /\ exportdirectory' = ed
                    /\ num_names' = Field(ed, "NumberOfNames")
                    /\ addressofnames' =
                           Add(ZeroExtend(Field(ed, "AddressOfNames")), mh)
                    /\ addressoffunctions' =
                           Add(ZeroExtend(Field(ed, "AddressOfFunctions")), mh)
                    /\ addressofnameordinals' =
                           Add(ZeroExtend(Field(ed, "AddressOfNameOrdinals")), mh)
                    /\ i' = Null
                 \/ ~ok /\ pc' = "fault" /\ NoFrame
    /\ UNCHANGED <<env, cmp>>

\* i++ on line 135: past INT_MAX the increment is undefined; the register
\* then holds what either build leaves in it
Increment ==
    IF i = IntMax64
    THEN ovf' = TRUE /\ i' \in {IntMin64, IntNext64}
    ELSE ovf' = ovf /\ i' = Off(i, 1)

\* the reads of lines 136-138 and 140 that the iteration at i..y got to
ScannedAfter(y) == Append(scanned, <<i, y>>)
OrdReadsAfter(y) ==
    IF Readable(NameEntry(i), 4) /\ Readable(OrdinalEntry(i), 2)
    THEN ordReads \cup {<<i, y>>} ELSE ordReads
FuncReadsAfter(y) ==
    IF /\ Readable(NameEntry(i), 4)
       /\ Readable(OrdinalEntry(i), 2)
       /\ Readable(FunctionEntry(i), 4)
    THEN funcReads \cup {<<i, y, ordinal(i)>>} ELSE funcReads

\* lines 136-142: one iteration
loop_iteration ==
    /\ pc = "loop"
    /\ LoopTest
    /\ ~QuietRun
    /\ scanned' = ScannedAfter(i)
    /\ ordReads' = OrdReadsAfter(i)
    /\ funcReads' = FuncReadsAfter(i)
    /\ \/ /\ ~IterationReadable(i)
          /\ pc' = "fault"
          /\ UNCHANGED <<i, ovf, ret>>
       \/ /\ IterationReadable(i)
          /\ Matches(i)
          /\ pc' = "idle"
          /\ ret' = ResolvedAddress(i)
          /\ UNCHANGED <<i, ovf>>
       \/ /\ IterationReadable(i)
          /\ ~Matches(i)
          /\ pc' = "loop"
          /\ Increment
          /\ UNCHANGED ret
    /\ UNCHANGED <<env, cmp, last, modulehandle, exportdirectory, num_names,
                   addressofnames, addressoffunctions, addressofnameordinals>>

\* lines 136-142, repeated over a range of zero entries none of which
\* matches: up to the last position, or up to INT_MAX when the range
\* reaches it
loop_run ==
    /\ pc = "loop"
    /\ QuietRun
    /\ \/ /\ ~Lt(IntMax64, i)
          /\ ~Lt(LastPosition, IntMax64)
          /\ scanned' = ScannedAfter(IntMax64)
          /\ ordReads' = OrdReadsAfter(IntMax64)
          /\ funcReads' = FuncReadsAfter(IntMax64)
          /\ ovf' = TRUE
          /\ i' \in {IntMin64, IntNext64}
       \/ /\ Lt(IntMax64, i) \/ Lt(LastPosition, IntMax64)
          /\ scanned' = ScannedAfter(LastPosition)
          /\ ordReads' = OrdReadsAfter(LastPosition)
          /\ funcReads' = FuncReadsAfter(LastPosition)
          /\ ovf' = ovf
          /\ i' = ZeroExtend(num_names)
    /\ UNCHANGED <<env, cmp, pc, last, ret, modulehandle, exportdirectory,
                   num_names, addressofnames, addressoffunctions,
                   addressofnameordinals>>

\* a not-found result cached in the directory's reserved first field
loop_exit_Caching ==
    /\ pc = "loop"
    /\ ~LoopTest
    /\ pc' = "idle"
    /\ ret' = Null
    /\ mem' = [mem EXCEPT ![exportdirectory] = 255]
    /\ UNCHANGED <<zone, gs, image, mods, args, cmp, last, regs, logs>>

\* line 144
loop_exit ==
    /\ pc = "loop"
    /\ ~LoopTest
    /\ pc' = "idle"
    /\ ret' = Null
    /\ UNCHANGED <<env, cmp, last, regs, logs>>

Next ==
    \/ get_kernel32_modulehandle
    \/ call_get_image_exportdirectory
    \/ get_getprocaddress_enter
    \/ loop_iteration
    \/ loop_run
    \/ loop_exit

---------------------------------------------------------------------------
(* Initial states: the memory the program is started in.                   *)

Widget == <<87, 105, 100, 103, 101, 116>>

\* names an export table is laid out with: the target, a proper prefix of
\* it, a name it is a proper prefix of, the target in lower case, "Widget"
NameChoices ==
    { Target,
      SubSeq(Target, 1, Len(Target) - 1),
      Target \o <<65>>,
      <<103, 101, 116, 112, 114, 111, 99, 97, 100, 100, 114, 101, 115, 115>>,
      Widget }

\* module bases: 0x10000, 0x7ffe12340000 and 0xffffffffffff0000
Bases ==
    { ToLE(65536, 8),
      <<0, 0, 52, 18, 254, 127, 0, 0>>,
      <<0, 0, 255, 255, 255, 255, 255, 255>> }

\* function offsets 0, 0x10000, 0xffffffff and 0x200, at ordinals 0..3
Funcs == << Zeros(4), ToLE(65536, 4), Ones(4), ToLE(512, 4) >>

NoZone == <<Null, Null>>

\* 2^35 bytes of zero pages following the image
ZeroPagesAfter(img) ==
    <<ImageTop(img), Add(ImageTop(img), <<0, 0, 0, 0, 8, 0, 0, 0>>)>>

ExeBase   == ToLE(4194304, 8)
NtdllBase == <<0, 0, 16, 18, 254, 127, 0, 0>>
GsBase    == ToLE(28672, 8)

Seqs(S, n) == UNION {[1..k -> S] : k \in 0..n}

Image(b, e, r, ns, os, c) ==
    [base |-> b, e_lfanew |-> e, rva |-> r, ordbase |-> ToLE(1, 4),
     funcs |-> Funcs, names |-> ns, ords |-> os, count |-> c]

\* name and ordinal tables of the same length, up to n entries
Tables(N, O, n) ==
    { t \in Seqs(N, n) \X Seqs(O, n) : Len(t[1]) = Len(t[2]) }

\* export tables whose NumberOfNames is the number of names laid out and
\* whose ordinals all index the function table: tables of up to MaxNames
\* names at base 0x10000, and every table of one name at each base
WellFormedImages ==
    { Image(ToLE(65536, 8), ToLE(64, 4), ToLE(512, 4), t[1], t[2],
            ToLE(Len(t[1]), 4)) :
         t \in Tables({Target, Target \o <<65>>, Widget},
                      {ToLE(0, 2), ToLE(3, 2)}, MaxNames) }
    \cup
    { Image(b, ToLE(64, 4), ToLE(512, 4), t[1], t[2], ToLE(Len(t[1]), 4)) :
         b \in Bases, t \in Tables(NameChoices, {ToLE(j, 2) : j \in 0..3}, 1) }

\* header fields with the top bit set or clear
HeaderImages ==
    { Image(b, e, r, <<Target>>, <<ToLE(3, 2)>>, ToLE(1, 4)) :
         b \in Bases,
         e \in {ToLE(64, 4), ToLE(128, 4), <<64, 0, 0, 128>>},
         r \in {ToLE(512, 4), <<0, 2, 0, 128>>} }

\* ordinals past the function table
BadOrdinalImages ==
    { Image(ToLE(65536, 8), ToLE(64, 4), ToLE(512, 4), t[1], t[2],
            ToLE(Len(t[1]), 4)) :
         t \in Tables({Target, Widget}, {ToLE(3, 2), Ones(2)}, MaxNames) }

\* more names counted than laid out: one more, INT_MAX, INT_MAX + 1 and
\* 0xffffffff
BadCountImages ==
    { Image(ToLE(65536, 8), ToLE(64, 4), ToLE(512, 4), t[1], t[2], c) :
         t \in Tables({Target, Widget}, {ToLE(3, 2)}, 1),
         c \in {ToLE(1, 4), ToLE(2, 4), Low32(IntMax64), Low32(IntNext64), Ones(4)} }

MalformedImages ==
    BadOrdinalImages \cup {img \in BadCountImages : img.count # ToLE(Len(img.names), 4)}

DefaultImage == CHOOSE img \in HeaderImages :
    img.base = ToLE(65536, 8) /\ img.e_lfanew = ToLE(64, 4) /\ img.rva = ToLE(512, 4)

DefaultMods(img) == <<ExeBase, NtdllBase, img.base>>

InitProgram ==
    /\ pc = "idle"
    /\ last = "none"
    /\ ret = Null
    /\ cmp = 0
    /\ modulehandle = Null
    /\ exportdirectory = Null
    /\ num_names = Zeros(4)
    /\ addressofnames = Null
    /\ addressoffunctions = Null
    /\ addressofnameordinals = Null
    /\ i = Null
    /\ ovf = FALSE
    /\ scanned = <<>>
    /\ ordReads = {}
    /\ funcReads = {}

InitEnv(img, z, ms, circular) ==
    /\ image = img
    /\ zone = z
    /\ gs = GsBase
    /\ mods = ms
    /\ args = <<>>
    /\ mem = Merge(<<ProgramMem, LoaderMem(GsBase, ms, circular), ImageMem(img)>>)

Init ==
    /\ InitProgram
    /\ \/ \E img \in WellFormedImages \cup HeaderImages :
             InitEnv(img, NoZone, DefaultMods(img), TRUE)
       \/ \E img \in MalformedImages :
             \E z \in {NoZone, ZeroPagesAfter(img)} :
                InitEnv(img, z, DefaultMods(img), TRUE)
       \/ \E ms \in Seqs({ExeBase, DefaultImage.base, Null}, MaxRecords)
                       \ {<<>>} :
             \E circular \in BOOLEAN :
                InitEnv(DefaultImage, NoZone, ms, circular)

Spec == Init /\ [][Next]_vars

---------------------------------------------------------------------------
(* gpa_strcmp on its own: two strings in memory, one call.                 *)

ArgAddrA == ToLE(4096, 8)
ArgAddrB == ToLE(8192, 8)

\* bytes strings are made of: 'A', 'a' and one byte with the top bit set
Alphabet == {65, 97, 200}

call_gpa_strcmp ==
    /\ pc = "idle"
    /\ StrReadable(ArgAddrA, ArgAddrB)
    /\ last' = "gpa_strcmp"
    /\ cmp' = gpa_strcmp(ArgAddrA, ArgAddrB)
    /\ UNCHANGED <<env, pc, ret, regs, logs>>

InitCmp ==
    /\ InitProgram
    /\ image = DefaultImage
    /\ zone = NoZone
    /\ gs = GsBase
    /\ mods = <<>>
    /\ \E a \in Seqs(Alphabet, MaxStrLen), b \in Seqs(Alphabet, MaxStrLen) :
          /\ args = <<a, b>>
          /\ mem = Place(ArgAddrA, a \o <<0>>) @@ Place(ArgAddrB, b \o <<0>>)

NextCmp == call_gpa_strcmp

SpecCmp == InitCmp /\ [][NextCmp]_vars

---------------------------------------------------------------------------
(* What the export table was laid out as, for stating the results.         *)

Returned(op) == pc = "idle" /\ last = op

\* the resolver was called on the image that was laid out
OnImage == last = "get_getprocaddress" /\ modulehandle = image.base

\* NumberOfNames counts the names laid out
Described == image.count = ToLE(Len(image.names), 4)

Positions == 1..Len(image.names)

\* the register value of the p-th position (positions count from 0)
Position(p) == ToLE(p - 1, 8)

OrdValue(o) == o[1] + 256 * o[2]

InTable(p) == OrdValue(image.ords[p]) < Len(image.funcs)

WellFormed == Described /\ \A p \in Positions : InTable(p)

Distinct ==
    \A p, q \in Positions : p # q => image.names[p] # image.names[q]

MatchSet == {p \in Positions : image.names[p] = Target}

FirstMatch == CHOOSE p \in MatchSet : \A q \in MatchSet : p <= q

\* B + function[ordinal[p]]
ExportAddress(p) ==
    Add(image.base, ZeroExtend(image.funcs[OrdValue(image.ords[p]) + 1]))

\* the positions the scan examined, one after the other from 0
ScanInOrder ==
    \A k \in 1..Len(scanned) :
       /\ k <= Len(image.names)
       /\ scanned[k] = <<Position(k), Position(k)>>

ProperPrefix(a, b) == Len(a) < Len(b) /\ SubSeq(b, 1, Len(a)) = a

---------------------------------------------------------------------------
(* The claims.                                                             *)

\* C1 as stated: on a well-formed table of distinct names, resolving the
\* name stored at any position p yields B + function[ordinal[p]] (so one
\* export "Widget" with ordinal 3 and offset 0x200 at base 0x10000 gives
\* 0x10200)
C1_EveryNameResolves ==
    (OnImage /\ WellFormed /\ Distinct /\ pc # "loop")
       => /\ pc = "idle"
          /\ \A p \in Positions : ret = ExportAddress(p)

\* C1 amended: the name resolved is the fixed name "GetProcAddress"; on a
\* well-formed table of distinct names the resolver returns, and when that
\* name is stored at position p the result is B + function[ordinal[p]],
\* the ordinal entry used as the index as it is
C1_TargetResolves ==
    (OnImage /\ WellFormed /\ Distinct /\ pc # "loop")
       => /\ pc = "idle"
          /\ \A p \in Positions :
                image.names[p] = Target => ret = ExportAddress(p)

\* the target second in the table with ordinal 3 and offset 0x200, at base
\* 0x10000, resolved to 0x10200
C1_Witness ==
    /\ Returned("get_getprocaddress")
    /\ OnImage /\ WellFormed /\ Distinct
    /\ Len(image.names) >= 2
    /\ image.names[2] = Target
    /\ image.ords[2] = ToLE(3, 2)
    /\ image.funcs[4] = ToLE(512, 4)
    /\ image.base = ToLE(65536, 8)
    /\ ret = <<0, 2, 1, 0, 0, 0, 0, 0>>

\* C2: when no name of the table is byte-for-byte the target, the resolver
\* returns 0 (also for the empty table, and for names that are a prefix of
\* the target, that extend it, or that differ in letter case); it returns
\* on every table whose ordinals index the function table
C2_AbsentIsNull ==
    (OnImage /\ MatchSet = {})
       => /\ pc = "idle" => ret = Null
          /\ WellFormed => pc # "fault"

\* a table of near matches only, resolved to 0
C2_Witness ==
    /\ Returned("get_getprocaddress")
    /\ OnImage /\ WellFormed
    /\ image.names # <<>>
    /\ \A p \in Positions :
          \/ ProperPrefix(image.names[p], Target)
          \/ ProperPrefix(Target, image.names[p])
          \/ /\ image.names[p] # Target
             /\ Len(image.names[p]) = Len(Target)
             /\ \A k \in 1..Len(Target) :
                   Fold(image.names[p][k]) = Fold(Target[k])
    /\ ret = Null

\* C3: with at least three records in the loader list, the locator returns
\* the base-address field of the third record
C3_ThirdRecordBase ==
    (last = "get_kernel32_modulehandle" /\ Len(mods) >= 3)
       => pc = "idle" /\ ret = mods[3]

\* a list of four records whose third is the target module, with a base
\* that no neighbouring record has
C3_Witness ==
    /\ Returned("get_kernel32_modulehandle")
    /\ Len(mods) >= 4
    /\ mods[3] = image.base
    /\ mods[3] \notin {Null, mods[1], mods[2], mods[4]}
    /\ ret = mods[3]
    /\ ret # Null

\* C4: the export-directory locator returns B + R, with the header offset
\* E and the directory offset R both zero-extended from 32 bits
C4_ExportDirectoryAddress ==
    (last = "get_image_exportdirectory" /\ modulehandle = image.base)
       => pc = "idle" /\ ret = Add(image.base, ZeroExtend(image.rva))

\* E and R with the top bit set, under a base above 4 GiB
C4_Witness ==
    /\ Returned("get_image_exportdirectory")
    /\ modulehandle = image.base
    /\ image.e_lfanew[4] >= 128
    /\ image.rva[4] >= 128
    /\ Lt(ZeroExtend(Ones(4)), image.base)
    /\ ret = Add(image.base, ZeroExtend(image.rva))

\* C5: gpa_strcmp returns zero exactly when the two strings are the same
\* up to and including the terminator
C5_ZeroIffEqual ==
    last = "gpa_strcmp" => (cmp = 0 <=> args[1] = args[2])

\* a string compared with a proper prefix of it, either way round
C5_Witness ==
    /\ last = "gpa_strcmp"
    /\ args[1] # <<>>
    /\ ProperPrefix(args[1], args[2])
    /\ cmp # 0

\* C6: no step of the locator, the export-directory locator or the
\* resolver changes a byte of memory or maps any
C6_MemoryUnchanged == [][mem' = mem /\ zone' = zone /\ gs' = gs]_vars

\* a resolve that returned not-found after a scan of the whole table, with
\* the memory as it was laid out
C6_Witness ==
    /\ Returned("get_getprocaddress")
    /\ OnImage /\ WellFormed
    /\ ret = Null
    /\ Len(scanned) = Len(image.names)
    /\ Len(scanned) >= 2
    /\ mem = Merge(<<ProgramMem, LoaderMem(GsBase, mods, TRUE),
                     ImageMem(image)>>)

\* C7: with the target at more than one position, the result is that of
\* the lowest such position k, and no position after k is examined
C7_FirstMatchWins ==
    (OnImage /\ Described /\ Cardinality(MatchSet) >= 2)
       => /\ ScanInOrder
          /\ Len(scanned) <= FirstMatch
          /\ \A r \in ordReads : r[1] = r[2] /\ Lt(r[1], Position(FirstMatch + 1))
          /\ \A r \in funcReads : r[1] = r[2] /\ Lt(r[1], Position(FirstMatch + 1))
          /\ (pc = "idle" /\ InTable(FirstMatch))
                => ret = ExportAddress(FirstMatch) /\ Len(scanned) = FirstMatch
          /\ pc = "fault" => \E p \in 1..FirstMatch : ~InTable(p)

\* the target at the second and third positions with different ordinals
C7_Witness ==
    /\ Returned("get_getprocaddress")
    /\ OnImage /\ WellFormed
    /\ MatchSet = {2, 3}
    /\ ExportAddress(2) # ExportAddress(3)
    /\ ret = ExportAddress(2)
    /\ Len(scanned) = 2

\* C8 as stated: the ordinal array and the function table are read only at
\* the first position whose name is the target, so no function-table read
\* comes from a position whose name does not match
C8_TablesReadOnlyAtMatch ==
    (OnImage /\ Described)
       => /\ \A r \in ordReads :
                MatchSet # {} /\ r = <<Position(FirstMatch), Position(FirstMatch)>>
          /\ \A r \in funcReads :
                /\ MatchSet # {}
                /\ <<r[1], r[2]>> = <<Position(FirstMatch), Position(FirstMatch)>>

\* C9 as stated: the scan examines positions 0, 1, ... in increasing
\* order, each at most once and none at or past NumberOfNames, and the
\* signed loop index never leaves its range
C9_ScanStaysInRange ==
    last = "get_getprocaddress"
       => /\ ~ovf
          /\ \A k \in 1..Len(scanned) :
                /\ ~Lt(scanned[k][2], scanned[k][1])
                /\ Lt(scanned[k][2], ZeroExtend(num_names))
                /\ k > 1 => Lt(scanned[k - 1][2], scanned[k][1])

\* C10: under a non-zero base, and a first match whose address does not
\* wrap, the result is 0 exactly when no name of the table is the target
C10_NullIffAbsent ==
    (/\ Returned("get_getprocaddress")
     /\ OnImage /\ Described
     /\ image.base # Null
     /\ MatchSet # {} =>
           /\ InTable(FirstMatch)
           /\ ~Lt(ExportAddress(FirstMatch), image.base))
       => (ret = Null <=> MatchSet = {})

\* the target exported at function offset 0: the result is the base itself
C10_Witness ==
    /\ Returned("get_getprocaddress")
    /\ OnImage /\ Described
    /\ image.base # Null
    /\ MatchSet # {}
    /\ InTable(FirstMatch)
    /\ image.funcs[OrdValue(image.ords[FirstMatch]) + 1] = Zeros(4)
    /\ ret = image.base

=============================================================================
